---- MODULE Spec2Model ----
(***************************************************************************)
(* SLA timer and escalation subsystem of the sales task tracker.           *)
(*                                                                         *)
(* Storage holds the task rows and the user profiles.  Interactive clients *)
(* run escalateOverdueTask on a task object they fetched earlier; the      *)
(* check-overdue-tasks edge function (the sweeper) scans storage and       *)
(* claims every overdue task.  Every await of the code is a step boundary, *)
(* so the actors interleave at storage reads and writes and at dispatches. *)
(* Times are milliseconds since an arbitrary origin.                       *)
(***************************************************************************)
EXTENDS Integers, Sequences, FiniteSets, TLC

\* ------------------------------------------------------------------ bounds
\* The clock advances MaxTicks times by TickMs.
MaxTicks == 1
\* Escalation invocations over a behaviour: client calls of
\* escalateOverdueTask plus sweeper runs.
MaxInvocations == 3
\* Timer and edit operations (Open, Pending, Close, Save) over a behaviour.
MaxEdits == 1
\* The same where managers work on the timer of a task.
MaxTimerOps == 3
\* Runs of the legacy escalation paths over a behaviour.
MaxLegacy == 2
\* Timer operations on a task created during the behaviour.
MaxCreateOps == 2

\* Date arithmetic of the code: seconds are 1000 ms.
MsPerSec == 1000

TickMs == MsPerSec

\* The clock reading of the initial state: tasks were created before it.
InitNow == 2 * MsPerSec

\* .limit(1000) of the sweeper's candidate query, scaled to the three tasks
\* of the model: the query returns at most SweepLimit rows.
SweepLimit == 2

\* null of a nullable timestamp or number column.
NULL == -1

Tasks == {"t1", "t2", "t3"}
Clients == {"c1", "c2"}
Users == {"u1", "u2"}
NoUser == "none"
NoTask == "none"

ManagerRoles == {"supervisor", "department_head", "admin"}

\* STATUS_OPTIONS of the create screen.
StatusOptions == {"open", "pending", "closed"}

\* Tasks some client has open in its task screen; the others are watched by
\* nobody.
Watched == {"t1"}

VARIABLES
    now,        \* the clock, in ms
    faulty,     \* whether storage and mail may fail in this behaviour
    tasks,      \* the tasks table
    profiles,   \* the profiles table
    cl,         \* per client: the task screen and its escalateOverdueTask call
    sw,         \* the sweeper's run in progress
    lg,         \* the call in progress of the due_at-only escalateOverdueTask
    db,         \* the run in progress of auto_escalate_overdue_tasks
    push,       \* per task and user: send-push requests for an escalation
    mail,       \* per task and user: escalation mails the sweeper sent
    alerts,     \* per task: escalation email alerts dispatched
    claims,     \* per task: who got a row back from the conditional update
    calls,      \* invocations of escalateOverdueTask so far
    nruns,      \* sweeper runs started so far
    legacy,     \* runs of the legacy paths so far
    edits,      \* timer and edit operations so far
    report      \* how the last finished sweeper run ended

vars == <<now, faulty, tasks, profiles, cl, sw, lg, db, push, mail, alerts,
          claims, calls, nruns, legacy, edits, report>>

\* ------------------------------------------------------- overdue predicates
\* Seeded fault: the comparison with the clock the wrong way round.
IsOverdueDueAtFlipped(dueAt, status) ==
    IF dueAt = NULL \/ status = "closed" THEN FALSE ELSE dueAt > now

IsOverdueDueAt(dueAt, status) ==
    IF dueAt = NULL \/ status = "closed" THEN FALSE ELSE dueAt < now

IsOverdueCustomTimer(customDurationSeconds, startedAt, status) ==
    IF customDurationSeconds = NULL \/ customDurationSeconds = 0
       \/ startedAt = NULL \/ status = "closed"
    THEN FALSE
    ELSE ((now - startedAt) \div MsPerSec) > customDurationSeconds

Overdue(t) ==
    \/ IsOverdueCustomTimer(t.custom_duration_seconds, t.started_at, t.status)
    \/ IsOverdueDueAt(t.due_at, t.status)

\* Seeded fault: the mail always reports due_at.
GetDeadlineDueAt(t) == t.due_at

\* getDeadlineForEmail of the client.
GetDeadlineForEmail(t) ==
    IF t.custom_duration_seconds # NULL /\ t.custom_duration_seconds # 0
       /\ t.started_at # NULL
    THEN t.started_at + t.custom_duration_seconds * MsPerSec
    ELSE t.due_at

\* ---------------------------------------------------------------- countdown
\* isUrgent: less than an hour left.
UrgentSec == 3600

\* Seeded fault: the seconds rounded towards zero instead of down.
DiffSecTruncated(diffMs) ==
    IF diffMs < 0 THEN 0 - ((0 - diffMs) \div MsPerSec) ELSE diffMs \div MsPerSec

\* Math.floor(diffMs / 1000).
DiffSec(diffMs) == diffMs \div MsPerSec

\* formatRemaining(dueAt, status): the flags of the countdown it returns.
FormatRemaining(dueAt, status) ==
    IF status = "closed" \/ dueAt = NULL
    THEN [isOverdue |-> FALSE, isUrgent |-> FALSE]
    ELSE LET diffSec == DiffSec(dueAt - now)
             isOverdue == diffSec < 0
             isUrgent == diffSec > 0 /\ diffSec < UrgentSec
         IN IF isOverdue
            THEN [isOverdue |-> TRUE, isUrgent |-> FALSE]
            ELSE [isOverdue |-> isOverdue, isUrgent |-> isUrgent]

\* formatRemaining(dueAt) of the task card: the same without the status.
CardFormatRemaining(dueAt) ==
    IF dueAt = NULL
    THEN [isOverdue |-> FALSE, isUrgent |-> FALSE]
    ELSE LET diffSec == DiffSec(dueAt - now)
             isOverdue == diffSec < 0
             isUrgent == diffSec > 0 /\ diffSec < UrgentSec
         IN IF isOverdue
            THEN [isOverdue |-> TRUE, isUrgent |-> FALSE]
            ELSE [isOverdue |-> isOverdue, isUrgent |-> isUrgent]

\* ------------------------------------------------------------------ storage
IsManager(u) == u # NoUser /\ profiles[u].role \in ManagerRoles

Managers == {u \in Users : IsManager(u)}

\* .from('profiles').select('id').in('role', [...]).limit(1): one row of the
\* matching ones, in no stated order, or no row.
SupervisorQuery == IF Managers = {} THEN {NoUser} ELSE Managers

\* Recipients of the escalation email: managers with a non-null email.
EmailRecipients == {u \in Managers : profiles[u].email}

NewTask(id, dueAt, customDurationSeconds) ==
    [id |-> id, status |-> "open", due_at |-> dueAt,
     custom_duration_seconds |-> customDurationSeconds,
     started_at |-> NULL, time_spent_seconds |-> 0,
     escalated_at |-> NULL, escalated_to |-> NoUser,
     closed_approved_by |-> NoUser, closed_at |-> NULL]

EmptyTask == [NewTask(NoTask, NULL, NULL) EXCEPT !.status = "none"]

\* Seeded fault: the update by id alone, without is('escalated_at', null).
ClaimHitsById(id) == TRUE

\* The conditional claim: update ... set escalated_at, escalated_to
\* where id = X and escalated_at is null.  TRUE iff a row is returned.
ClaimHits(id) == tasks[id].escalated_at = NULL

\* An entry of claims: the invocation that got the row back (the sweeper's
\* run number, 0 for a client).
Claimer(who, n) == [who |-> who, run |-> n]

\* Seeded fault: the claim also stops the timer of the task.
ClaimWriteStopsTimer(id, to) ==
    [tasks EXCEPT ![id].escalated_at = now, ![id].escalated_to = to,
                  ![id].started_at = NULL]

\* update({escalated_at, escalated_to}) of the claim: no other column.
ClaimWrite(id, to) ==
    [tasks EXCEPT ![id].escalated_at = now, ![id].escalated_to = to]

\* ----------------------------------------------------------------- initial
\* Due dates: one already past at InitNow, one that passes while the clock
\* runs, one that stays in the future.
DuePast == InitNow - MsPerSec
DueSoon == InitNow
DueLate == InitNow + 8 * MsPerSec
DueAts == {DuePast, DueSoon, DueLate}

Profiles(role1, email1, role2) ==
    [u \in Users |-> IF u = "u1" THEN [role |-> role1, email |-> email1]
                                 ELSE [role |-> role2, email |-> TRUE]]

NoManager == Profiles("staff", TRUE, "staff")
OneSupervisor == Profiles("supervisor", TRUE, "staff")
OneSupervisorNoEmail == Profiles("supervisor", FALSE, "staff")
TwoManagers == Profiles("supervisor", TRUE, "admin")
StaffAndAdmin == Profiles("staff", TRUE, "admin")

ProfileConfigs == {NoManager, OneSupervisor, OneSupervisorNoEmail, TwoManagers}

\* Tasks as created (status open, timer not started), or with a custom
\* duration whose timer was started at the origin of time.
Due(d1, d2, d3) ==
    [t \in Tasks |-> NewTask(t, IF t = "t1" THEN d1 ELSE IF t = "t2" THEN d2 ELSE d3, NULL)]

TasksBothDue == Due(DuePast, DuePast, DueLate)
TasksUnwatchedDue == Due(DueLate, DueLate, DuePast)
TasksTimed ==
    [Due(DueLate, DueSoon, DuePast) EXCEPT
        !["t1"].custom_duration_seconds = 2, !["t1"].started_at = 0]

InitTasks == {TasksBothDue, TasksUnwatchedDue, TasksTimed}

\* ret is the value the call resolves to, failed the dispatches of the call
\* that ended in an error or an exception, alert the alert the screen shows,
\* dueAt the deadline passed to send-escalation-email, card the task card of
\* the client's list and its countdown.
IdleClient == [pc |-> "idle", task |-> EmptyTask, status |-> "open",
               arg |-> EmptyTask, escalateToId |-> NoUser,
               ret |-> FALSE, failed |-> {}, alert |-> "none", dueAt |-> NULL,
               timeInfo |-> [isOverdue |-> FALSE, isUrgent |-> FALSE],
               card |-> [task |-> EmptyTask,
                         timeInfo |-> [isOverdue |-> FALSE, isUrgent |-> FALSE]]]

IdleLegacy == [pc |-> "idle", arg |-> EmptyTask, escalateToId |-> NoUser]

NoReport == [run |-> 0, outcome |-> "none", processed |-> 0, rows |-> {},
             at |-> NULL, done |-> NULL, loaded |-> <<>>, claimed |-> {},
             attempted |-> <<>>]

\* The sweeper between runs.  rows, at, loaded, claimed and attempted record
\* the run for its report: the rows the query returned and when, the ids of
\* overdueTasks, the ids whose update returned a row, the ids tried so far.
\* mailed is the task the last mails were about, deadlineIso their deadline.
IdleSweeper == [pc |-> "idle", batch |-> <<>>, escalateToId |-> NoUser,
                processed |-> 0, cur |-> EmptyTask, rows |-> {}, at |-> NULL,
                loaded |-> <<>>, claimed |-> {}, attempted |-> <<>>,
                mailed |-> EmptyTask, deadlineIso |-> NULL]

Init ==
    /\ now = InitNow
    /\ faulty \in BOOLEAN
    /\ tasks \in InitTasks
    /\ profiles \in ProfileConfigs
    /\ cl = [c \in Clients |-> IdleClient]
    /\ sw = IdleSweeper
    /\ lg = IdleLegacy
    /\ db = [pc |-> "idle", rows |-> <<>>, at |-> NULL]
    /\ push = [t \in Tasks |-> [u \in Users |-> 0]]
    /\ mail = [t \in Tasks |-> [u \in Users |-> 0]]
    /\ alerts = [t \in Tasks |-> 0]
    /\ claims = [t \in Tasks |-> <<>>]
    /\ calls = 0
    /\ nruns = 0
    /\ legacy = 0
    /\ edits = 0
    /\ report = NoReport

\* Two overdue tasks and one supervisor.
InitRace == Init /\ tasks \in {TasksBothDue, TasksTimed} /\ profiles = OneSupervisor

\* The same on storage and mail that do not fail.
InitEdit == InitRace /\ ~faulty

\* Two overdue tasks, with no manager or with two, on working storage.
InitTarget ==
    Init /\ ~faulty /\ tasks = TasksBothDue /\ profiles \in {NoManager, TwoManagers}

\* Two managers with the task screen of t1 open, on working storage.
InitTimer ==
    Init /\ ~faulty /\ tasks \in {TasksBothDue, TasksTimed} /\ profiles = TwoManagers

\* The countdown of the task screen: the clock reads CountdownNow, and t1 is
\* due or was started around it and around an hour from it.
CountdownNow == 2 * UrgentSec * MsPerSec

DueOffsets ==
    {0 - MsPerSec, 0 - 1, 0, 1, MsPerSec,
     (UrgentSec - 1) * MsPerSec, UrgentSec * MsPerSec, (UrgentSec + 1) * MsPerSec}

StartedAgo == {UrgentSec - 1, UrgentSec, UrgentSec + 1}

CountdownTask(status, off, cds, startedAt) ==
    [NewTask("t1", CountdownNow + off, cds) EXCEPT
        !.status = status, !.started_at = startedAt]

TasksCountdown ==
    LET running == {CountdownTask("open", off, UrgentSec, CountdownNow - ago * MsPerSec) :
                       off \in DueOffsets, ago \in StartedAgo}
        stopped == {CountdownTask(st, off, cds, NULL) :
                       st \in {"open", "pending", "closed"}, off \in DueOffsets,
                       cds \in {NULL, UrgentSec}}
    IN {[Due(DueLate, DueLate, DueLate) EXCEPT !["t1"] = t1] : t1 \in running \cup stopped}

InitCountdown ==
    /\ now = CountdownNow
    /\ faulty = FALSE
    /\ tasks \in TasksCountdown
    /\ profiles = OneSupervisor
    /\ cl = [c \in Clients |-> IdleClient]
    /\ sw = IdleSweeper
    /\ lg = IdleLegacy
    /\ db = [pc |-> "idle", rows |-> <<>>, at |-> NULL]
    /\ push = [t \in Tasks |-> [u \in Users |-> 0]]
    /\ mail = [t \in Tasks |-> [u \in Users |-> 0]]
    /\ alerts = [t \in Tasks |-> 0]
    /\ claims = [t \in Tasks |-> <<>>]
    /\ calls = 0
    /\ nruns = 0
    /\ legacy = 0
    /\ edits = 0
    /\ report = NoReport

\* Any tasks and profiles, on storage and mail that do not fail.
InitLive == Init /\ ~faulty

\* t1 and t2 were created due at DuePast with a custom duration of two
\* seconds, and opened a second before the initial state.
TasksBothTimed ==
    [t \in Tasks |->
        IF t = "t3" THEN NewTask(t, DueLate, NULL)
        ELSE [NewTask(t, DuePast, 2) EXCEPT !.started_at = InitNow - MsPerSec]]

\* Overdue tasks with and without a custom timer, one supervisor, working
\* storage and mail.
InitMail ==
    /\ now = InitNow
    /\ faulty = FALSE
    /\ tasks \in {TasksBothDue, TasksTimed, TasksBothTimed}
    /\ profiles = OneSupervisor
    /\ cl = [c \in Clients |-> IdleClient]
    /\ sw = IdleSweeper
    /\ lg = IdleLegacy
    /\ db = [pc |-> "idle", rows |-> <<>>, at |-> NULL]
    /\ push = [t \in Tasks |-> [u \in Users |-> 0]]
    /\ mail = [t \in Tasks |-> [u \in Users |-> 0]]
    /\ alerts = [t \in Tasks |-> 0]
    /\ claims = [t \in Tasks |-> <<>>]
    /\ calls = 0
    /\ nruns = 0
    /\ legacy = 0
    /\ edits = 0
    /\ report = NoReport

\* t1 is not created yet; the users are two managers, or a staff member and
\* an admin.
TasksUncreated == [Due(DuePast, DueLate, DueLate) EXCEPT !["t1"] = EmptyTask]

InitCreate ==
    /\ now = InitNow
    /\ faulty = FALSE
    /\ tasks = TasksUncreated
    /\ profiles \in {TwoManagers, StaffAndAdmin}
    /\ cl = [c \in Clients |-> IdleClient]
    /\ sw = IdleSweeper
    /\ lg = IdleLegacy
    /\ db = [pc |-> "idle", rows |-> <<>>, at |-> NULL]
    /\ push = [t \in Tasks |-> [u \in Users |-> 0]]
    /\ mail = [t \in Tasks |-> [u \in Users |-> 0]]
    /\ alerts = [t \in Tasks |-> 0]
    /\ claims = [t \in Tasks |-> <<>>]
    /\ calls = 0
    /\ nruns = 0
    /\ legacy = 0
    /\ edits = 0
    /\ report = NoReport

\* -------------------------------------------------------------------- clock
Tick ==
    /\ now < InitNow + MaxTicks * TickMs
    /\ now' = now + TickMs
    /\ UNCHANGED <<faulty, tasks, profiles, cl, sw, lg, db, push, mail,
                   alerts, claims, calls, nruns, legacy, edits, report>>

\* ------------------------------------------- client: escalateOverdueTask
\* The task screen loads the row of its task into its state (on mount).
FetchTask(c, t) ==
    /\ cl[c].pc = "idle"
    /\ t \in Watched
    /\ cl[c].task.id \in {NoTask, t}
    /\ cl[c].task # tasks[t]
    /\ cl' = [cl EXCEPT ![c].task = tasks[t], ![c].status = tasks[t].status,
                         ![c].timeInfo =
                            FormatRemaining(tasks[t].due_at, tasks[t].status)]
    /\ UNCHANGED <<now, faulty, tasks, profiles, sw, lg, db, push, mail,
                   alerts, claims, calls, nruns, legacy, edits, report>>

\* The screen's one-second interval: the countdown is computed again from
\* the screen's due date and status.
Countdown(c) ==
    /\ cl[c].pc = "idle"
    /\ cl[c].task.id # NoTask
    /\ cl' = [cl EXCEPT ![c].timeInfo =
                            FormatRemaining(cl[c].task.due_at, cl[c].status)]
    /\ UNCHANGED <<now, faulty, tasks, profiles, sw, lg, db, push, mail,
                   alerts, claims, calls, nruns, legacy, edits, report>>

\* The task list renders the card of a row it loaded.
TaskCard(c, t) ==
    /\ cl[c].pc = "idle"
    /\ t \in Watched
    /\ cl[c].card.task # tasks[t]
    /\ cl' = [cl EXCEPT ![c].card =
                  [task |-> tasks[t],
                   timeInfo |-> CardFormatRemaining(tasks[t].due_at)]]
    /\ UNCHANGED <<now, faulty, tasks, profiles, sw, lg, db, push, mail,
                   alerts, claims, calls, nruns, legacy, edits, report>>

\* The card's one-second interval.
CardCountdown(c) ==
    /\ cl[c].pc = "idle"
    /\ cl[c].card.task.id # NoTask
    /\ cl' = [cl EXCEPT ![c].card.timeInfo =
                            CardFormatRemaining(cl[c].card.task.due_at)]
    /\ UNCHANGED <<now, faulty, tasks, profiles, sw, lg, db, push, mail,
                   alerts, claims, calls, nruns, legacy, edits, report>>

\* Entry of escalateOverdueTask(task): the overdue and escalated_at checks on
\* the task object the caller passed.
EscEligible(a) == Overdue(a) /\ a.escalated_at = NULL

EscCall(c) ==
    /\ cl[c].pc = "idle"
    /\ cl[c].task.id # NoTask
    /\ calls + nruns < MaxInvocations
    /\ calls' = calls + 1
    /\ IF EscEligible(cl[c].task)
       THEN cl' = [cl EXCEPT ![c].pc = "lookup", ![c].arg = cl[c].task]
       ELSE cl' = cl
    /\ UNCHANGED <<now, faulty, tasks, profiles, sw, lg, db, push, mail,
                   alerts, claims, nruns, legacy, edits, report>>

EscReturn(c) == [cl EXCEPT ![c].pc = "idle", ![c].arg = EmptyTask,
                           ![c].escalateToId = NoUser,
                           ![c].ret = FALSE, ![c].failed = {},
                           ![c].dueAt = NULL]

\* Seeded fault: the push goes out as soon as the target is known, before
\* the conditional update.
EscLookupPushesFirst(c) ==
    /\ cl[c].pc = "lookup"
    /\ \/ /\ faulty
          /\ cl' = EscReturn(c)
          /\ push' = push
       \/ \E u \in SupervisorQuery :
             /\ cl' = [cl EXCEPT ![c].pc = "claim", ![c].escalateToId = u]
             /\ push' = IF u = NoUser THEN push
                        ELSE [push EXCEPT ![cl[c].arg.id][u] = @ + 1]
    /\ UNCHANGED <<now, faulty, tasks, profiles, sw, lg, db, mail,
                   alerts, claims, calls, nruns, legacy, edits, report>>

\* The supervisor query of escalateOverdueTask; on its error the call
\* returns false.
EscLookup(c) ==
    /\ cl[c].pc = "lookup"
    /\ \/ /\ faulty                                \* supervisorsError
          /\ cl' = EscReturn(c)
       \/ \E u \in SupervisorQuery :
             cl' = [cl EXCEPT ![c].pc = "claim", ![c].escalateToId = u]
    /\ UNCHANGED <<now, faulty, tasks, profiles, sw, lg, db, push, mail,
                   alerts, claims, calls, nruns, legacy, edits, report>>

EscClaim(c) ==
    /\ cl[c].pc = "claim"
    /\ LET id == cl[c].arg.id IN
       \/ /\ faulty                                \* error on the update
          /\ cl' = EscReturn(c)
          /\ UNCHANGED <<tasks, claims>>
       \/ /\ ClaimHits(id)
          /\ tasks' = ClaimWrite(id, cl[c].escalateToId)
          /\ claims' = [claims EXCEPT ![id] = Append(@, Claimer(c, 0))]
          /\ cl' = [cl EXCEPT ![c].pc =
                       IF cl[c].escalateToId # NoUser THEN "push" ELSE "email"]
       \/ /\ ~ClaimHits(id)                        \* no row updated
          /\ cl' = EscReturn(c)
          /\ UNCHANGED <<tasks, claims>>
    /\ UNCHANGED <<now, faulty, profiles, sw, lg, db, push, mail, alerts,
                   calls, nruns, legacy, edits, report>>

\* Seeded fault: a failed dispatch makes the call return false.
EscalatedIfDelivered(failed) == failed = {}

\* return true at the end of escalateOverdueTask, whatever the dispatches did.
Escalated(failed) == TRUE

\* sendEscalationNotification: one send-push request; its error is not
\* looked at and its exception is caught and logged.
EscPush(c) ==
    /\ cl[c].pc = "push"
    /\ push' = [push EXCEPT ![cl[c].arg.id][cl[c].escalateToId] = @ + 1]
    /\ \/ cl' = [cl EXCEPT ![c].pc = "email"]
       \/ /\ faulty                                \* the request fails
          /\ cl' = [cl EXCEPT ![c].pc = "email", ![c].failed = @ \cup {"push"}]
    /\ UNCHANGED <<now, faulty, tasks, profiles, sw, lg, db, mail, alerts,
                   claims, calls, nruns, legacy, edits, report>>

\* sendEscalationEmail: one send-escalation-email request; an error or an
\* exception of the invoke is logged and swallowed.
EscEmail(c) ==
    /\ cl[c].pc = "email"
    /\ alerts' = [alerts EXCEPT ![cl[c].arg.id] = @ + 1]
    /\ \/ cl' = [cl EXCEPT ![c].pc = "returned",
                            ![c].dueAt = GetDeadlineForEmail(cl[c].arg),
                            ![c].ret = Escalated(cl[c].failed)]
       \/ /\ faulty                                \* the invoke fails
          /\ LET failed == cl[c].failed \cup {"email"} IN
             cl' = [cl EXCEPT ![c].pc = "returned", ![c].failed = failed,
                              ![c].dueAt = GetDeadlineForEmail(cl[c].arg),
                              ![c].ret = Escalated(failed)]
    /\ UNCHANGED <<now, faulty, tasks, profiles, sw, lg, db, push, mail,
                   claims, calls, nruns, legacy, edits, report>>

\* The caller gets the value of the call.
EscReturned(c) ==
    /\ cl[c].pc = "returned"
    /\ cl' = EscReturn(c)
    /\ UNCHANGED <<now, faulty, tasks, profiles, sw, lg, db, push, mail,
                   alerts, claims, calls, nruns, legacy, edits, report>>

\* ------------------------------------------- sweeper: check-overdue-tasks
\* Rows with status != 'closed' and escalated_at is null.
Candidates == {t \in Tasks : tasks[t].status # "closed" /\ tasks[t].escalated_at = NULL}

\* .limit(1000) without an order: every candidate when they fit, otherwise
\* any SweepLimit of them.
LimitedRows ==
    IF Cardinality(Candidates) <= SweepLimit
    THEN {Candidates}
    ELSE {r \in SUBSET Candidates : Cardinality(r) = SweepLimit}

\* The orders in which storage may return the rows of S.
Orders(S) ==
    {q \in [1..Cardinality(S) -> S] : \A i, j \in 1..Cardinality(S) : q[i] = q[j] => i = j}

\* The end of a run: "ok" is the response {processed}, "load_error" the 500
\* response, "crashed" an exception that left the handler.
RunReport(s, n, outcome) ==
    [run |-> n, outcome |-> outcome, processed |-> s.processed,
     rows |-> s.rows, at |-> s.at, done |-> now, loaded |-> s.loaded,
     claimed |-> s.claimed, attempted |-> s.attempted]

\* Run n starts: the candidate query and the overdue filter.  Without an
\* overdue task the run ends at once with {processed: 0}.
SweepLoad(n) ==
    /\ sw.pc = "idle"
    /\ nruns' = n
    /\ \/ /\ faulty                                \* error loading tasks
          /\ report' = RunReport([sw EXCEPT !.at = now], n, "load_error")
          /\ sw' = sw
       \/ \E rows \in LimitedRows :
             LET overdueTasks == {t \in rows : Overdue(tasks[t])}
                 loaded == [sw EXCEPT !.rows = rows, !.at = now]
             IN
             IF overdueTasks = {}
             THEN /\ report' = RunReport(loaded, n, "ok")
                  /\ sw' = sw
             ELSE \E q \in Orders(overdueTasks) :
                     /\ sw' = [loaded EXCEPT !.pc = "lookup",
                                  !.batch = [i \in 1..Len(q) |-> tasks[q[i]]],
                                  !.loaded = q]
                     /\ report' = report
    /\ UNCHANGED <<now, faulty, tasks, profiles, cl, lg, db, push, mail,
                   alerts, claims, calls, legacy, edits>>

\* The supervisor query; its error is logged and the run goes on without a
\* target.
SweepLookup ==
    /\ sw.pc = "lookup"
    /\ \/ /\ faulty                                \* supError
          /\ sw' = [sw EXCEPT !.pc = "claim", !.escalateToId = NoUser]
       \/ \E u \in SupervisorQuery :
             sw' = [sw EXCEPT !.pc = "claim", !.escalateToId = u]
    /\ UNCHANGED <<now, faulty, tasks, profiles, cl, lg, db, push, mail,
                   alerts, claims, calls, nruns, legacy, edits, report>>

\* Seeded fault: a task whose update failed or returned no row is counted.
SkippedCounted(next) == [next EXCEPT !.processed = @ + 1]

\* continue: the task is not counted and the loop goes on.
Skipped(next) == next

\* One pass of the loop up to the result of its conditional update.
SweepClaim ==
    /\ sw.pc = "claim"
    /\ sw.batch # <<>>
    /\ LET task == Head(sw.batch)
           next == [sw EXCEPT !.batch = Tail(sw.batch),
                              !.attempted = Append(sw.attempted, task.id)]
       IN
       \/ /\ faulty                                \* updError: continue
          /\ sw' = Skipped(next)
          /\ UNCHANGED <<tasks, claims>>
       \/ /\ ClaimHits(task.id)
          /\ tasks' = ClaimWrite(task.id, sw.escalateToId)
          /\ claims' = [claims EXCEPT ![task.id] = Append(@, Claimer("sweeper", nruns))]
          /\ sw' = [next EXCEPT !.pc = "email", !.cur = task,
                                !.claimed = @ \cup {task.id}]
       \/ /\ ~ClaimHits(task.id)                   \* !updated: continue
          /\ sw' = Skipped(next)
          /\ UNCHANGED <<tasks, claims>>
    /\ UNCHANGED <<now, faulty, profiles, cl, lg, db, push, mail, alerts,
                   calls, nruns, legacy, edits, report>>

\* getDeadlineForEmail of the sweeper.
SweepDeadlineForEmail(task) ==
    IF task.custom_duration_seconds # NULL /\ task.custom_duration_seconds # 0
       /\ task.started_at # NULL
    THEN task.started_at + task.custom_duration_seconds * MsPerSec
    ELSE task.due_at

\* One mail to every recipient; a failing send is caught per recipient.
MailAll(id) ==
    [mail EXCEPT ![id] = [u \in Users |->
                            IF u \in EmailRecipients THEN @[u] + 1 ELSE @[u]]]

\* sendEmailsForTask and the statements after it.  It returns early without
\* mailing (credentials missing, recipients query failed, no recipient), or
\* mails every recipient.  Creating the SMTP client and closing it are outside
\* every try block, and so is the call itself: an exception there leaves the
\* loop and the handler.
SweepEmail ==
    /\ sw.pc = "email"
    /\ LET id == sw.cur.id
           counted == [sw EXCEPT !.pc = "claim", !.cur = EmptyTask,
                                 !.processed = @ + 1]
       IN
       \/ /\ faulty \/ EmailRecipients = {}        \* early return
          /\ sw' = counted
          /\ UNCHANGED <<mail, alerts, report>>
       \/ /\ EmailRecipients # {}                  \* mailed and closed
          /\ mail' = MailAll(id)
          /\ alerts' = [alerts EXCEPT ![id] = @ + 1]
          /\ sw' = [counted EXCEPT !.mailed = sw.cur,
                                   !.deadlineIso = SweepDeadlineForEmail(sw.cur)]
          /\ UNCHANGED report
       \/ /\ faulty /\ EmailRecipients # {}        \* new SMTPClient throws
          /\ report' = RunReport(sw, nruns, "crashed")
          /\ sw' = IdleSweeper
          /\ UNCHANGED <<mail, alerts>>
       \/ /\ faulty /\ EmailRecipients # {}        \* client.close() throws
          /\ mail' = MailAll(id)
          /\ alerts' = [alerts EXCEPT ![id] = @ + 1]
          /\ report' = RunReport(sw, nruns, "crashed")
          /\ sw' = IdleSweeper
    /\ UNCHANGED <<now, faulty, tasks, profiles, cl, lg, db, push, claims,
                   calls, nruns, legacy, edits>>

\* Response {processed} after the loop.
SweepReturn ==
    /\ sw.pc = "claim"
    /\ sw.batch = <<>>
    /\ report' = RunReport(sw, nruns, "ok")
    /\ sw' = IdleSweeper
    /\ UNCHANGED <<now, faulty, tasks, profiles, cl, lg, db, push, mail,
                   alerts, claims, calls, nruns, legacy, edits>>

\* ------------------------------------ storage: auto_escalate_overdue_tasks
\* Rows of the function's loop query: not closed, not escalated, due_at < now().
SqlOverdue(t) ==
    /\ t.status # "closed"
    /\ t.escalated_at = NULL
    /\ t.due_at # NULL /\ t.due_at < now

\* The function starts: its loop query is evaluated, in some row order.
\* now() is the time the transaction started.
SqlStarted(tbl) ==
    LET found == {t \in Tasks : tbl[t].status # "closed" /\ tbl[t].escalated_at = NULL
                               /\ tbl[t].due_at # NULL /\ tbl[t].due_at < now}
        q == CHOOSE q \in Orders(found) : TRUE
    IN IF found = {} THEN [pc |-> "idle", rows |-> <<>>, at |-> NULL]
       ELSE [pc |-> "loop", rows |-> q, at |-> now]

\* trigger_check_task_escalation: after an update of a task that changed
\* due_at or status and left the row open, unescalated and past due_at, the
\* function runs in the updating transaction.
TriggerFires(old, new) ==
    /\ old.due_at # new.due_at \/ old.status # new.status
    /\ SqlOverdue(new)

\* A periodic call of the function.
SqlCall ==
    /\ db.pc = "idle"
    /\ legacy < MaxLegacy
    /\ legacy' = legacy + 1
    /\ db' = SqlStarted(tasks)
    /\ UNCHANGED <<now, faulty, tasks, profiles, cl, sw, lg, push, mail,
                   alerts, claims, calls, nruns, edits, report>>

\* One pass of the loop: the supervisor is looked up, and the row is updated
\* by id alone when one was found.  Other transactions commit between the
\* statements of the function (read committed).
SqlRow ==
    /\ db.pc = "loop"
    /\ LET id == Head(db.rows)
           rest == IF Len(db.rows) = 1
                   THEN [pc |-> "idle", rows |-> <<>>, at |-> NULL]
                   ELSE [db EXCEPT !.rows = Tail(db.rows)]
       IN
       /\ db' = rest
       /\ \E u \in SupervisorQuery :
             tasks' = IF u = NoUser THEN tasks
                      ELSE [tasks EXCEPT ![id].escalated_at = db.at,
                                         ![id].escalated_to = u]
    /\ UNCHANGED <<now, faulty, profiles, cl, sw, lg, push, mail, alerts,
                   claims, calls, nruns, legacy, edits, report>>

\* ------------------------- legacy client: due_at-only escalateOverdueTask
LgCall(c) ==
    /\ lg.pc = "idle"
    /\ cl[c].task.id # NoTask
    /\ legacy < MaxLegacy
    /\ legacy' = legacy + 1
    /\ IF IsOverdueDueAt(cl[c].task.due_at, cl[c].task.status)
          /\ cl[c].task.escalated_at = NULL
       THEN lg' = [lg EXCEPT !.pc = "lookup", !.arg = cl[c].task]
       ELSE lg' = lg
    /\ UNCHANGED <<now, faulty, tasks, profiles, cl, sw, db, push, mail,
                   alerts, claims, calls, nruns, edits, report>>

\* The supervisor query; without a row (or on an error) the call returns.
LgLookup ==
    /\ lg.pc = "lookup"
    /\ \/ /\ faulty \/ Managers = {}
          /\ lg' = IdleLegacy
       \/ \E u \in Managers :
             lg' = [lg EXCEPT !.pc = "update", !.escalateToId = u]
    /\ UNCHANGED <<now, faulty, tasks, profiles, cl, sw, db, push, mail,
                   alerts, claims, calls, nruns, legacy, edits, report>>

\* update({escalated_at, escalated_to}).eq('id', task.id): by id alone.
LgUpdate ==
    /\ lg.pc = "update"
    /\ \/ /\ faulty
          /\ lg' = IdleLegacy
          /\ tasks' = tasks
       \/ /\ tasks' = ClaimWrite(lg.arg.id, lg.escalateToId)
          /\ lg' = [lg EXCEPT !.pc = "push"]
    /\ UNCHANGED <<now, faulty, profiles, cl, sw, db, push, mail, alerts,
                   claims, calls, nruns, legacy, edits, report>>

LgPush ==
    /\ lg.pc = "push"
    /\ push' = [push EXCEPT ![lg.arg.id][lg.escalateToId] = @ + 1]
    /\ lg' = IdleLegacy
    /\ UNCHANGED <<now, faulty, tasks, profiles, cl, sw, db, mail, alerts,
                   claims, calls, nruns, legacy, edits, report>>

\* ---------------------------------------------- task screen: timer and edit
\* The signed-in user of a client.
SessionUser(c) == IF c = "c1" THEN "u1" ELSE "u2"

\* An update ... eq('id', id).select().single() of a handler: the row is
\* written, the escalation trigger runs on it, and the screen keeps the
\* returned row.  A storage error leaves everything as it was.
Stored(c, row, uiStatus) ==
    /\ db.pc = "idle"
    /\ tasks' = [tasks EXCEPT ![row.id] = row]
    /\ db' = IF TriggerFires(tasks[row.id], row) THEN SqlStarted(tasks') ELSE db
    /\ cl' = [cl EXCEPT ![c].task = row, ![c].status = uiStatus]
    /\ edits' = edits + 1
    /\ UNCHANGED <<now, faulty, profiles, sw, lg, push, mail, alerts, claims,
                   calls, nruns, legacy, report>>

\* Math.floor((now - started_at) / 1000) added to the screen's
\* time_spent_seconds when the screen's task is running.
Folded(task) ==
    IF task.started_at # NULL
    THEN task.time_spent_seconds + ((now - task.started_at) \div MsPerSec)
    ELSE task.time_spent_seconds

\* Seeded fault: Open writes started_at and leaves the stored status alone.
HandleOpenKeepsStatus(c) ==
    /\ cl[c].task.id # NoTask
    /\ IsManager(SessionUser(c))
    /\ cl[c].task.started_at = NULL
    /\ cl[c].status # "closed"
    /\ LET row == [tasks[cl[c].task.id] EXCEPT !.started_at = now]
       IN Stored(c, row, row.status)

\* Open button: shown to managers, disabled while running or closed.
HandleOpen(c) ==
    /\ cl[c].task.id # NoTask
    /\ IsManager(SessionUser(c))
    /\ cl[c].task.started_at = NULL
    /\ cl[c].status # "closed"
    /\ LET row == [tasks[cl[c].task.id] EXCEPT !.started_at = now, !.status = "open"]
       IN Stored(c, row, row.status)

\* Pending button: shown to managers, disabled when paused and pending.
HandlePending(c) ==
    /\ cl[c].task.id # NoTask
    /\ IsManager(SessionUser(c))
    /\ ~(cl[c].task.started_at = NULL /\ cl[c].status = "pending")
    /\ LET row == [tasks[cl[c].task.id] EXCEPT !.started_at = NULL,
                       !.time_spent_seconds = Folded(cl[c].task),
                       !.status = "pending"]
       IN Stored(c, row, cl[c].status)

\* Close button: disabled when closed; handleClose refuses non-managers.
\* When storage rejects the approval columns, the update is made again
\* without them.
HandleClose(c) ==
    /\ cl[c].task.id # NoTask
    /\ IsManager(SessionUser(c))
    /\ cl[c].status # "closed"
    /\ LET retry == [tasks[cl[c].task.id] EXCEPT !.started_at = NULL,
                       !.time_spent_seconds = Folded(cl[c].task),
                       !.status = "closed"]
           row == [retry EXCEPT !.closed_approved_by = SessionUser(c),
                                !.closed_at = now]
       IN Stored(c, row, row.status) \/ Stored(c, retry, retry.status)

\* Seeded fault: handleClose without its isManager check.
HandleCloseUnchecked(c) ==
    /\ cl[c].task.id # NoTask
    /\ ~IsManager(SessionUser(c))
    /\ cl[c].alert = "none"
    /\ LET row == [tasks[cl[c].task.id] EXCEPT !.started_at = NULL,
                       !.time_spent_seconds = Folded(cl[c].task),
                       !.status = "closed",
                       !.closed_approved_by = SessionUser(c),
                       !.closed_at = now]
       IN Stored(c, row, row.status)

\* handleClose for a user who is no manager: the alert, and nothing else.
HandleCloseRefused(c) ==
    /\ cl[c].task.id # NoTask
    /\ ~IsManager(SessionUser(c))
    /\ cl[c].alert = "none"
    /\ cl' = [cl EXCEPT ![c].alert = "Approval Required"]
    /\ UNCHANGED <<now, faulty, tasks, profiles, sw, lg, db, push, mail,
                   alerts, claims, calls, nruns, legacy, edits, report>>

\* Save button: a manager writes the form's due date.
HandleSave(c, dueAt) ==
    /\ cl[c].task.id # NoTask
    /\ IsManager(SessionUser(c))
    /\ LET row == [tasks[cl[c].task.id] EXCEPT !.due_at = dueAt]
       IN Stored(c, row, cl[c].status)

\* handleCreate: the insert of a task.  The status selector is shown to an
\* admin only; the approval columns are filled when an admin creates a closed
\* task, and left out when storage rejects them.  started_at,
\* time_spent_seconds and the escalation columns get their defaults.
HandleCreate(c, t, status, dueAt, customDurationSeconds) ==
    /\ tasks[t].status = "none"
    /\ LET userId == SessionUser(c)
           isAdmin == profiles[userId].role = "admin"
           retry == [NewTask(t, dueAt, customDurationSeconds) EXCEPT !.status = status]
           row == IF status = "closed" /\ isAdmin
                  THEN [retry EXCEPT !.closed_approved_by = userId, !.closed_at = now]
                  ELSE retry
       IN
       /\ isAdmin \/ status = "open"
       /\ tasks' = [tasks EXCEPT ![t] = row] \/ tasks' = [tasks EXCEPT ![t] = retry]
    /\ UNCHANGED <<now, faulty, profiles, cl, sw, lg, db, push, mail, alerts,
                   claims, calls, nruns, legacy, edits, report>>

\* ----------------------------------------------------------- specifications
ClientStep ==
    \E c \in Clients :
       \/ \E t \in Tasks : FetchTask(c, t)
       \/ EscCall(c)
       \/ EscLookup(c)
       \/ EscClaim(c)
       \/ EscPush(c)
       \/ EscEmail(c)
       \/ EscReturned(c)

SweepRun == SweepLookup \/ SweepClaim \/ SweepEmail \/ SweepReturn

SweeperStep ==
    \/ calls + nruns < MaxInvocations /\ SweepLoad(nruns + 1)
    \/ SweepRun

\* The sweeper on its schedule, run after run without end (the run numbers
\* wrap around, so that every run is a step of its own).
SweeperForever == SweepLoad(IF nruns = 1 THEN 2 ELSE 1) \/ SweepRun

\* One of the task screen's handlers, while fewer than n have run.
Handler(n) ==
    \E c \in Clients :
       \/ edits < n /\ HandleOpen(c)
       \/ edits < n /\ HandlePending(c)
       \/ edits < n /\ HandleClose(c)
       \/ edits < n /\ \E d \in DueAts : HandleSave(c, d)

TimerStep == Handler(MaxEdits)

LegacyStep == (\E c \in Clients : LgCall(c)) \/ LgLookup \/ LgUpdate \/ LgPush

SqlStep == SqlCall \/ SqlRow

\* The escalation protocol: clients and the sweeper race for the claims.
Next == Tick \/ ClientStep \/ SweeperStep

Spec == InitRace /\ [][Next]_vars

\* The same on working storage and mail, over tasks with custom timers.
SpecMail == InitMail /\ [][Next]_vars

\* The sweeper alone.
NextSweep == Tick \/ SweeperStep

SpecSweep == Init /\ [][NextSweep]_vars

\* The sweeper on its schedule for ever, on storage and mail that do not fail.
NextLive == Tick \/ SweeperForever

SpecLive == InitLive /\ [][NextLive]_vars /\ WF_vars(SweeperForever)

\* Clients, the sweeper and the task screen's handlers on reliable storage.
NextEdit == Tick \/ ClientStep \/ SweeperStep \/ TimerStep \/ SqlRow

SpecEdit == InitEdit /\ [][NextEdit]_vars

\* The writers of escalated_at besides the sweeper: both client variants,
\* the storage function and its trigger, and the task screen's handlers.
NextAll == Tick \/ ClientStep \/ TimerStep \/ LegacyStep \/ SqlStep

SpecAll == InitRace /\ [][NextAll]_vars

\* Every escalation path, one invocation after the other: both client
\* variants, the sweeper and the storage function, with no manager or with
\* several.
Quiet ==
    /\ \A c \in Clients : cl[c].pc = "idle"
    /\ sw.pc = "idle" /\ lg.pc = "idle" /\ db.pc = "idle"

PathStart ==
    \/ \E c \in Clients :
          \/ \E t \in Tasks : FetchTask(c, t)
          \/ EscCall(c)
          \/ LgCall(c)
    \/ calls + nruns < MaxInvocations /\ SweepLoad(nruns + 1)
    \/ SqlCall

PathStep ==
    \/ \E c \in Clients :
          EscLookup(c) \/ EscClaim(c) \/ EscPush(c) \/ EscEmail(c) \/ EscReturned(c)
    \/ SweepRun
    \/ LgLookup \/ LgUpdate \/ LgPush
    \/ SqlRow

NextTarget == Tick \/ (Quiet /\ PathStart) \/ PathStep

SpecTarget == InitTarget /\ [][NextTarget]_vars

\* The timer of a task under the handlers of two managers' screens, with the
\* storage function that the trigger starts.
NextTimer ==
    \/ Tick
    \/ \E c \in Clients, t \in Tasks : FetchTask(c, t)
    \/ Handler(MaxTimerOps)
    \/ SqlRow

SpecTimer == InitTimer /\ [][NextTimer]_vars

\* The life of a task from its creation: the create screen, then the task
\* screens of two users and the storage function that the trigger starts.
NextCreate ==
    \/ Tick
    \/ \E c \in Clients, t \in Watched, status \in StatusOptions,
          d \in DueAts \cup {now}, cds \in {NULL, 2} :
          HandleCreate(c, t, status, d, cds)
    \/ \E c \in Clients, t \in Tasks : FetchTask(c, t)
    \/ Handler(MaxCreateOps)
    \/ \E c \in Clients : HandleCloseRefused(c)
    \/ SqlRow

SpecCreate == InitCreate /\ [][NextCreate]_vars

\* The task screen showing the countdown of its task.
NextCountdown ==
    \E c \in Clients :
       \/ \E t \in Tasks : FetchTask(c, t)
       \/ Countdown(c)
       \/ \E t \in Tasks : TaskCard(c, t)
       \/ CardCountdown(c)

SpecCountdown == InitCountdown /\ [][NextCountdown]_vars

\* ------------------------------------------------------------------ claims
\* Escalation invocations currently waiting for the result of their
\* conditional update on task t.
ClaimingClients(t) == {c \in Clients : cl[c].pc = "claim" /\ cl[c].arg.id = t}

SweeperClaiming(t) == sw.pc = "claim" /\ sw.batch # <<>> /\ Head(sw.batch).id = t

PushCount(t) == push[t]["u1"] + push[t]["u2"]

\* C1: for every task, at most one escalation invocation (client call or
\* sweeper run) ever gets a row back from the update conditioned on
\* escalated_at IS NULL; every other one gets the empty result.
C1_AtMostOneClaim == \A t \in Tasks : Len(claims[t]) <= 1

\* Three invocations race for t1: one client has claimed it, the other client
\* and the sweeper are at their conditional update of it.
C1_Witness ==
    /\ Len(claims["t1"]) = 1
    /\ claims["t1"][1].who \in Clients
    /\ ClaimingClients("t1") # {}
    /\ SweeperClaiming("t1")

\* C3: under any interleaving of clients and the sweeper, at most one
\* escalation push and at most one escalation email alert are dispatched per
\* task, and none for a task nobody claimed.
C3_AtMostOneDispatch ==
    \A t \in Tasks :
       /\ PushCount(t) <= Len(claims[t])
       /\ alerts[t] <= Len(claims[t])
       /\ PushCount(t) <= 1
       /\ alerts[t] <= 1

\* The push and the alert of t1 are out, and the sweeper, which loaded t1
\* before the claim, has since tried its conditional update of t1.
C3_Witness ==
    /\ PushCount("t1") = 1
    /\ alerts["t1"] = 1
    /\ report.outcome = "ok"
    /\ \E i \in 1..Len(report.attempted) : report.attempted[i] = "t1"
    /\ "t1" \notin report.claimed

\* C2: once a task's escalated_at is set, no step of any actor changes its
\* escalated_at or escalated_to.
C2_WrittenOnce ==
    [][\A t \in Tasks :
          tasks[t].escalated_at # NULL =>
             /\ tasks'[t].escalated_at = tasks[t].escalated_at
             /\ tasks'[t].escalated_to = tasks[t].escalated_to]_vars

\* C4: no step sets escalated_at of a task whose stored status is closed.
C4_ClosedNeverEscalates ==
    [][\A t \in Tasks :
          (tasks[t].status = "closed" /\ tasks[t].escalated_at = NULL)
             => tasks'[t].escalated_at = NULL]_vars

\* C5: a client's escalateOverdueTask claims only a task whose stored row is
\* eligible (not closed, not escalated, overdue) when the claim is made.
C5_EligibleWhenClaimed ==
    [][\A c \in Clients :
          (cl[c].pc = "claim" /\ cl'[c].pc \in {"push", "email"})
             => EscEligible(tasks[cl[c].arg.id])]_vars

\* The deadline of a task as the specification defines it: the custom timer
\* when it is set and started, due_at otherwise.
DeadlinePassed(t, at) ==
    IF t.custom_duration_seconds # NULL /\ t.started_at # NULL
    THEN at > t.started_at + t.custom_duration_seconds * MsPerSec
    ELSE t.due_at # NULL /\ at > t.due_at

Stuck(t) ==
    /\ tasks[t].status # "closed"
    /\ tasks[t].escalated_at = NULL
    /\ DeadlinePassed(tasks[t], now)

\* C6: with the sweeper running for ever on working storage, no task stays
\* open, unescalated and overdue for ever.
C6_Backstop == \A t \in Tasks : []<>(~Stuck(t))

C8_EndToEnd ==
    (~faulty /\ report.outcome = "ok" /\ Cardinality(Managers) = 1) =>
       \A t \in report.rows, S \in Managers :
          (tasks[t].status = "open" /\ tasks[t].due_at # NULL
              /\ tasks[t].due_at < report.at) =>
             /\ tasks[t].escalated_at # NULL
             /\ tasks[t].escalated_at >= report.at
             /\ tasks[t].escalated_at <= report.done
             /\ tasks[t].escalated_to = S
             /\ push[t][S] + mail[t][S] = 1

\* C9: a sweeper run that got its batch tries the claim on every task of the
\* batch, whatever fails on the way.
C9_BatchCompleted ==
    report.outcome \in {"ok", "crashed"} =>
       Len(report.attempted) = Len(report.loaded)

NoDuplicates(q) == \A i, j \in 1..Len(q) : q[i] = q[j] => i = j

\* C10: the count a sweeper run reports is the number of tasks whose
\* conditional update returned a row in that run; lost and failed updates are
\* not counted, and no task is tried twice in a run.
C10_CountIsClaims ==
    /\ report.outcome = "ok" =>
          /\ report.processed = Cardinality(report.claimed)
          /\ \A t \in report.claimed :
                claims[t] = <<Claimer("sweeper", report.run)>>
          /\ \A t \in Tasks :
                (claims[t] # <<>> /\ claims[t][1] = Claimer("sweeper", report.run))
                   => t \in report.claimed
          /\ NoDuplicates(report.attempted)
    /\ NoDuplicates(sw.attempted)

\* A run tried two tasks, lost one of them to a client and counted the other,
\* for which it sent no mail.
C10_Witness ==
    /\ report.outcome = "ok"
    /\ Len(report.attempted) = 2
    /\ report.processed = 1
    /\ claims["t1"] # <<>> /\ claims["t1"][1].who \in Clients
    /\ "t2" \in report.claimed
    /\ alerts["t2"] = 0

\* C11: a call of escalateOverdueTask whose push or email alert failed after
\* its claim succeeded still returns true, the task keeps the escalated_at
\* and escalated_to of that claim, and no dispatch was made twice.
C11_ClaimKeptOnDispatchFailure ==
    \A c \in Clients :
       (cl[c].pc = "returned" /\ cl[c].failed # {}) =>
          LET id == cl[c].arg.id IN
          /\ cl[c].ret = TRUE
          /\ claims[id] = <<Claimer(c, 0)>>
          /\ tasks[id].escalated_at # NULL
          /\ tasks[id].escalated_to = cl[c].escalateToId
          /\ PushCount(id) <= 1
          /\ alerts[id] <= 1

\* Both dispatches of c1's call for t1 failed and the call is back.
C11_Witness ==
    /\ cl["c1"].pc = "returned"
    /\ cl["c1"].arg.id = "t1"
    /\ cl["c1"].failed = {"push", "email"}
    /\ tasks["t1"].escalated_at # NULL

\* C12: without any manager, every escalation path that handles an eligible
\* overdue task on working storage marks it escalated with escalated_to
\* null, and no push is sent for it.
C12_EscalatesWithoutTarget ==
    [][(Managers = {} /\ ~faulty) =>
          /\ \A c \in Clients :
                (cl[c].pc \in {"lookup", "claim", "email"} /\ cl'[c].pc \in {"idle", "returned"})
                   => /\ tasks'[cl[c].arg.id].escalated_at # NULL
                      /\ tasks'[cl[c].arg.id].escalated_to = NoUser
          /\ (sw.pc = "claim" /\ sw.batch # <<>> /\ sw' # sw)
                => /\ tasks'[Head(sw.batch).id].escalated_at # NULL
                   /\ tasks'[Head(sw.batch).id].escalated_to = NoUser
          /\ (lg.pc # "idle" /\ lg'.pc = "idle")
                => /\ tasks'[lg.arg.id].escalated_at # NULL
                   /\ tasks'[lg.arg.id].escalated_to = NoUser
          /\ (db.pc = "loop" /\ db' # db)
                => /\ tasks'[Head(db.rows)].escalated_at # NULL
                   /\ tasks'[Head(db.rows)].escalated_to = NoUser
          /\ \A t \in Tasks : PushCount(t) = 0]_vars

\* C13: for a task that is not closed, the overdue decision of the
\* escalators is the decision of its one authoritative deadline: the custom
\* timer when it is set and started, whatever due_at is, and due_at otherwise.
C13_OneDeadlineSource ==
    \A t \in Tasks :
       tasks[t].status # "closed" =>
          (Overdue(tasks[t]) <=> DeadlinePassed(tasks[t], now))

\* The screens showing t1 with a current countdown.
Showing(c) == cl[c].task.id = "t1" /\ cl[c].task = tasks["t1"]

\* C14: for a task that is not closed, with custom_duration_seconds = D and
\* started_at set, the countdown reports isOverdue when more than D seconds
\* have passed since started_at, and isUrgent without isOverdue when between
\* 0 and 3600 seconds of D are left, whatever due_at is.
C14_CustomCountdown ==
    \A c \in Clients :
       LET t == cl[c].task
           left == t.custom_duration_seconds - ((now - t.started_at) \div MsPerSec)
       IN (Showing(c) /\ t.status # "closed"
              /\ t.custom_duration_seconds # NULL /\ t.started_at # NULL) =>
             /\ left < 0 => cl[c].timeInfo.isOverdue
             /\ (0 < left /\ left < UrgentSec) =>
                   (~cl[c].timeInfo.isOverdue /\ cl[c].timeInfo.isUrgent)

\* C15: for a task that is not closed and governed by due_at, with
\* secondsRemaining the whole seconds of due_at - now, the countdown reports
\* isOverdue iff secondsRemaining < 0 and isUrgent iff 0 < secondsRemaining
\* < 3600, never both and neither at 0, and the overdue predicates of the
\* escalators agree with isOverdue.
C15_DueCountdown ==
    \A c \in Clients :
       LET t == cl[c].task
           secondsRemaining == (t.due_at - now) \div MsPerSec
           info == cl[c].timeInfo
       IN (Showing(c) /\ t.status # "closed"
              /\ (t.custom_duration_seconds = NULL \/ t.started_at = NULL)) =>
             /\ info.isOverdue <=> secondsRemaining < 0
             /\ info.isUrgent <=> (0 < secondsRemaining /\ secondsRemaining < UrgentSec)
             /\ ~(info.isOverdue /\ info.isUrgent)
             /\ secondsRemaining = 0 => (~info.isOverdue /\ ~info.isUrgent)
             /\ IsOverdueDueAt(t.due_at, t.status) <=> info.isOverdue
             /\ Overdue(t) <=> info.isOverdue

\* Both screens show a pending task that went past its due_at a millisecond
\* ago, and report it overdue.
C15_Witness ==
    /\ Showing("c1") /\ Showing("c2")
    /\ tasks["t1"].custom_duration_seconds = NULL
    /\ tasks["t1"].status = "pending"
    /\ tasks["t1"].due_at = now - 1
    /\ cl["c1"].timeInfo.isOverdue /\ cl["c2"].timeInfo.isOverdue

\* A shown task with less than an hour left is reported urgent.
C15_WitnessUrgent ==
    /\ Showing("c1")
    /\ tasks["t1"].status = "open"
    /\ tasks["t1"].due_at = now + MsPerSec
    /\ cl["c1"].timeInfo.isUrgent

\* C16: time_spent_seconds grows only when a running interval ends, and then
\* by the whole seconds of that interval; it does not change while the task
\* is not running, and every pause leaves started_at null.
C16_NoDoubleCounting ==
    [][\A t \in Tasks :
          LET old == tasks[t]
              new == tasks'[t]
          IN
          /\ (old.started_at # NULL /\ new.started_at = NULL) =>
                new.time_spent_seconds =
                   old.time_spent_seconds + ((now - old.started_at) \div MsPerSec)
          /\ (old.started_at = NULL \/ new.started_at # NULL) =>
                new.time_spent_seconds = old.time_spent_seconds
          /\ (edits' # edits /\ new.status = "pending" /\ old.status # "closed") =>
                new.started_at = NULL]_vars

\* C17: every step that closes a task is one update that leaves started_at
\* null, adds the whole seconds of the interval in flight (if the task was
\* running) to time_spent_seconds, and sets closed_approved_by and closed_at,
\* or neither of them on the fallback path; no closed task has started_at set.
C17_CloseFoldsAtOnce ==
    [][\A t \in Tasks :
          LET old == tasks[t]
              new == tasks'[t]
          IN
          /\ new.status = "closed" => new.started_at = NULL
          /\ (old.status # "closed" /\ new.status = "closed") =>
                /\ new.time_spent_seconds =
                      old.time_spent_seconds +
                         (IF old.started_at # NULL
                          THEN (now - old.started_at) \div MsPerSec ELSE 0)
                /\ \/ new.closed_approved_by # NoUser /\ new.closed_at = now
                   \/ /\ new.closed_approved_by = old.closed_approved_by
                      /\ new.closed_at = old.closed_at]_vars

\* C18: a task whose stored status is closed stays closed, and no step
\* changes its started_at or time_spent_seconds.
C18_NoReopen ==
    [][\A t \in Tasks :
          tasks[t].status = "closed" =>
             /\ tasks'[t].status = "closed"
             /\ tasks'[t].started_at = tasks[t].started_at
             /\ tasks'[t].time_spent_seconds = tasks[t].time_spent_seconds]_vars

\* C19: for the fixed set of profiles, every escalation selects the same
\* target: any two escalated tasks carry the same escalated_to.
C19_SameTarget ==
    \A t1, t2 \in Tasks :
       (tasks[t1].escalated_to # NoUser /\ tasks[t2].escalated_to # NoUser)
          => tasks[t1].escalated_to = tasks[t2].escalated_to

\* C20: a start on a task whose stored started_at is set never overwrites
\* it: while the timer stays running, started_at keeps its value.
C20_StartKeepsStartedAt ==
    [][\A t \in Tasks :
          (tasks[t].started_at # NULL /\ tasks'[t].started_at # NULL)
             => tasks'[t].started_at = tasks[t].started_at]_vars

\* C21: no step makes the stored time_spent_seconds of a task smaller.
C21_TimeSpentNeverDecreases ==
    [][\A t \in Tasks :
          tasks'[t].time_spent_seconds >= tasks[t].time_spent_seconds]_vars

\* C22: in every reachable state, whatever the users' screens did and
\* whatever status the task was created with, a task whose stored status is
\* closed has started_at null.
C22_ClosedImpliesPaused ==
    \A t \in Tasks : tasks[t].status = "closed" => tasks[t].started_at = NULL

\* t1 was closed while another screen still holds a copy of it with the
\* timer running.
C22_Witness ==
    /\ tasks["t1"].status = "closed"
    /\ \E c \in Clients : cl[c].task.id = "t1" /\ cl[c].task.started_at # NULL

\* t1 was created closed.
C22_WitnessCreated ==
    /\ tasks["t1"].status = "closed"
    /\ edits = 0

\* C23: a close attempted by a user who is no supervisor, department head or
\* admin is refused and leaves every task as it was; every handler step that
\* closes a task is made from a manager's screen; closed_approved_by and
\* closed_at are only ever set together, to a manager and the time of the
\* close.
C23_CloseNeedsAuthority ==
    [][/\ \A c \in Clients :
             (~IsManager(SessionUser(c)) /\ cl'[c].alert # cl[c].alert)
                => tasks' = tasks
       /\ \A t \in Tasks :
             LET old == tasks[t]
                 new == tasks'[t]
             IN
             /\ (new.closed_approved_by # NoUser \/ new.closed_at # NULL) =>
                   /\ IsManager(new.closed_approved_by)
                   /\ new.closed_at # NULL
             /\ (edits' # edits /\ old.status # "closed" /\ new.status = "closed") =>
                   \A c \in Clients :
                      cl'[c] # cl[c] => IsManager(SessionUser(c))]_vars

\* The staff member's close of t1 was refused, and the admin then closed t1
\* with approval.
C23_Witness ==
    /\ ~IsManager(SessionUser("c1"))
    /\ cl["c1"].alert = "Approval Required"
    /\ cl["c1"].task.id = "t1"
    /\ tasks["t1"].status = "closed"
    /\ tasks["t1"].closed_approved_by = SessionUser("c2")
    /\ edits = 1

\* The deadline of a task as the specification defines it.
Deadline(t) ==
    IF t.custom_duration_seconds # NULL /\ t.started_at # NULL
    THEN t.started_at + t.custom_duration_seconds * MsPerSec
    ELSE t.due_at

SameTimer(a, b) ==
    /\ a.due_at = b.due_at
    /\ a.custom_duration_seconds = b.custom_duration_seconds
    /\ a.started_at = b.started_at

\* C24: the deadline an escalation email reports is started_at +
\* custom_duration_seconds when the escalated task has both set, and due_at
\* otherwise, in the client and in the sweeper; for the same task state both
\* report the same deadline.
C24_ReportedDeadline ==
    /\ \A c \in Clients :
          cl[c].pc = "returned" => cl[c].dueAt = Deadline(cl[c].arg)
    /\ sw.mailed.id # NoTask => sw.deadlineIso = Deadline(sw.mailed)
    /\ \A c \in Clients :
          (cl[c].pc = "returned" /\ sw.mailed.id # NoTask
              /\ SameTimer(cl[c].arg, sw.mailed))
             => cl[c].dueAt = sw.deadlineIso

\* A client's mail for t1 and the sweeper's mail for t2, two tasks with the
\* same due_at and the same running custom timer, both report the end of the
\* custom timer.
C24_Witness ==
    /\ cl["c1"].pc = "returned" /\ cl["c1"].arg.id = "t1"
    /\ sw.mailed.id = "t2"
    /\ SameTimer(cl["c1"].arg, sw.mailed)
    /\ cl["c1"].arg.started_at # NULL
    /\ cl["c1"].dueAt = sw.deadlineIso
    /\ cl["c1"].dueAt # cl["c1"].arg.due_at

\* C25: every countdown shown for a task whose status is closed, in the task
\* screen and on the task card, reports neither isOverdue nor isUrgent.
C25_ClosedCountdown ==
    \A c \in Clients :
       /\ (cl[c].task.id # NoTask /\ cl[c].status = "closed") =>
             (~cl[c].timeInfo.isOverdue /\ ~cl[c].timeInfo.isUrgent)
       /\ cl[c].card.task.status = "closed" =>
             (~cl[c].card.timeInfo.isOverdue /\ ~cl[c].card.timeInfo.isUrgent)

\* C26: at every time, the entry check of escalateOverdueTask, the sweeper's
\* candidate query with its overdue filter, and the loop query of
\* auto_escalate_overdue_tasks agree on every stored task: all three find it
\* eligible for escalation, or none does.
C26_OneEligibilityFormula ==
    \A t \in Tasks :
       /\ EscEligible(tasks[t]) <=> (t \in Candidates /\ Overdue(tasks[t]))
       /\ EscEligible(tasks[t]) <=> SqlOverdue(tasks[t])

\* C27: the deadline an escalation email reports is not later than the
\* moment the task was claimed.
C27_DeadlineNotInFuture ==
    /\ \A c \in Clients :
          cl[c].pc = "returned" =>
             cl[c].dueAt <= tasks[cl[c].arg.id].escalated_at
    /\ sw.mailed.id # NoTask =>
          sw.deadlineIso <= tasks[sw.mailed.id].escalated_at

\* C28: an escalated task has escalated_to set to a manager, or to null when
\* there is no manager; a failed supervisor lookup never ends in a claim
\* with escalated_to null.
C28_TargetIsManagerOrNone ==
    \A t \in Tasks :
       tasks[t].escalated_at # NULL =>
          \/ tasks[t].escalated_to \in Managers
          \/ tasks[t].escalated_to = NoUser /\ Managers = {}

\* C29: every escalation push and every escalation email of the client and
\* of the sweeper is dispatched after the dispatching invocation has set the
\* task's escalated_at: at the step that sends it the invocation holds the
\* claim of the task and the stored escalated_at is set; and the step that
\* writes a claim dispatches nothing.
C29_ClaimPrecedesDispatch ==
    [][\A t \in Tasks :
          /\ (push'[t] # push[t] \/ mail'[t] # mail[t] \/ alerts'[t] # alerts[t]) =>
                /\ tasks[t].escalated_at # NULL
                /\ claims[t] # <<>>
                /\ \/ \E c \in Clients :
                         /\ cl[c].pc \in {"push", "email"} /\ cl[c].arg.id = t
                         /\ claims[t][Len(claims[t])] = Claimer(c, 0)
                   \/ /\ sw.pc = "email" /\ sw.cur.id = t
                      /\ claims[t][Len(claims[t])] = Claimer("sweeper", nruns)
          /\ claims'[t] # claims[t] =>
                /\ push' = push /\ mail' = mail /\ alerts' = alerts
                /\ tasks[t].escalated_at = NULL
                /\ tasks'[t].escalated_at # NULL]_vars

\* The sweeper has claimed t2 and sent its mails while a client, which
\* claimed t1, has sent its push and not yet its email.
C29_Witness ==
    /\ cl["c1"].pc = "email" /\ cl["c1"].arg.id = "t1"
    /\ PushCount("t1") = 1 /\ alerts["t1"] = 0
    /\ claims["t1"] = <<Claimer("c1", 0)>>
    /\ sw.mailed.id = "t2" /\ alerts["t2"] = 1

====
